---- MODULE Spec2Model ----
(***************************************************************************)
(* Model of src/model/train.py: the training script of bluaxees/auth-cookie *)
(* read CSV -> normalize -> split -> load model.sav or search and fit ->    *)
(* evaluate -> save model.sav if absent.  One run of the script is one pass *)
(* of pc from "read" to "done" or "failed"; StartRun starts the script      *)
(* again on the files the previous run left behind.                         *)
(*                                                                          *)
(* Numbers are exact: a cell of the normalized frame is n * sqrt(r / d),    *)
(* which represents (x - mean) / std without rounding; NaN is the result of *)
(* 0 / 0 and of a division by the undefined std of a single row.            *)
(***************************************************************************)
EXTENDS Integers, Sequences, FiniteSets, TLC

VARIABLES
    csv,            \* content of data/features.csv
    file,           \* model.sav: [exists, bytes]
    shuffle,        \* the permutation random_state=seed yields, per row count
    pc,             \* position of the script
    ds,             \* line 13
    normalized_ds,  \* lines 17-23
    X_train, X_test, y_train, y_test,   \* line 29
    tuner,          \* TRUE once the SklearnTuner is constructed (line 76)
    best_hp,        \* line 90
    best_model,     \* lines 69, 71, 93, 94
    reported,       \* what evaluate_model printed (lines 49-57)
    \* history of the run, used by the properties only
    trace,          \* stages started in this run, in order
    fileAtStart,    \* model.sav when this run started
    file0,          \* model.sav before the first run
    loaded,         \* the object pickle.load returned in this run
    evaluated,      \* the model handed to evaluate_model in this run
    existedAtCheck, \* result of isfile(filename) at line 100
    writes,         \* times this run opened model.sav for writing
    firstSaved      \* the first run that wrote model.sav completely

vars == << csv, file, shuffle, pc, ds, normalized_ds, X_train, X_test, y_train,
           y_test, tuner, best_hp, best_model, reported, trace, fileAtStart,
           file0, loaded, evaluated, existedAtCheck, writes, firstSaved >>

----------------------------------------------------------------------------
(* Bounds *)

MaxRows == 3    \* rows of a generated dataset
MaxVal == 1     \* cells of a generated dataset are 0..MaxVal
MaxHP == 2      \* hyperparameter configurations the search can return
MaxThr == 2     \* split thresholds a fit can learn, 0..MaxThr

----------------------------------------------------------------------------
(* Sequences and sums *)

RECURSIVE SumSeq(_)
SumSeq(s) == IF s = << >> THEN 0 ELSE Head(s) + SumSeq(Tail(s))

Last(s) == s[Len(s)]

IsPrefix(s, t) == Len(s) <= Len(t) /\ SubSeq(t, 1, Len(s)) = s

Perms(n) == { p \in [1..n -> 1..n] : \A i, j \in 1..n : p[i] = p[j] => i = j }

----------------------------------------------------------------------------
(* The data frame: a function from column names to columns (sequences) *)

RestoredCols == { "Class", "Length", "TFIDF_H", "TFIDF_S", "TFIDF_J", "Z_Length" }

\* F1 stands for the feature columns of features.csv the script does not name
Cols == RestoredCols \cup { "F1" }

EmptyFrame == [ c \in {} |-> << >> ]

Rows(frame) == IF DOMAIN frame = {} THEN 0
               ELSE Len(frame[CHOOSE c \in DOMAIN frame : TRUE])

NaN == [ nan |-> TRUE ]

Raw(x) == [ n |-> x, r |-> 1, d |-> 1 ]

RawCol(col) == [ i \in 1..Len(col) |-> Raw(col[i]) ]

\* N * (x_i - mean) and the sum of its squares: std^2 = SqDev / (N^2 * (N-1))
Dev(col, i) == Len(col) * col[i] - SumSeq(col)

SqDev(col) == SumSeq([ i \in 1..Len(col) |-> Dev(col, i) * Dev(col, i) ])

\* a population standard deviation (ddof = 0) in place of pandas' sample one
ZScoreCol_Population(col) ==
    IF SqDev(col) = 0 THEN [ i \in 1..Len(col) |-> NaN ]
    ELSE [ i \in 1..Len(col) |->
             [ n |-> Dev(col, i), r |-> Len(col), d |-> SqDev(col) ] ]

\* (col - col.mean()) / col.std(), pandas' std being the sample one (ddof = 1)
ZScoreCol(col) ==
    IF Len(col) < 2 \/ SqDev(col) = 0 THEN [ i \in 1..Len(col) |-> NaN ]
    ELSE [ i \in 1..Len(col) |->
             [ n |-> Dev(col, i), r |-> Len(col) - 1, d |-> SqDev(col) ] ]

\* the normalization with line 18 left out
NormalizeFrame_ClassScaled(frame) ==
    [ c \in DOMAIN frame |->
        IF c \in RestoredCols \ { "Class" } THEN RawCol(frame[c])
        ELSE ZScoreCol(frame[c]) ]

NormalizeFrame(frame) ==
    LET z == [ c \in DOMAIN frame |-> ZScoreCol(frame[c]) ]
    IN  [ c \in DOMAIN frame |->
            IF c \in RestoredCols THEN RawCol(frame[c]) ELSE z[c] ]

\* train_test_split: n_test = ceil(test_size * n), test_size = 1 / TestDen
TestDen == 5

NTest(n) == (n + TestDen - 1) \div TestDen

NTrain(n) == n - NTest(n)

TakeRows(frame, idx) ==
    [ c \in DOMAIN frame |-> [ k \in 1..Len(idx) |-> frame[c][idx[k]] ] ]

DropCol(frame, col) == [ c \in DOMAIN frame \ { col } |-> frame[c] ]

----------------------------------------------------------------------------
(* Objects, and pickle as a byte string: 78 is NONE, 99 GLOBAL, 46 STOP *)

None == [ cls |-> "NoneType" ]

Other == [ cls |-> "dict" ]

Unbound == [ cls |-> "unbound" ]

\* thr = -1: built, not fit
RF(h, t) == [ cls |-> "RandomForestClassifier", hp |-> h, thr |-> t ]

HPs == 1..MaxHP

Thresholds == 0..MaxThr

Dump(obj) ==
    IF obj.cls = "NoneType" THEN << 78, 46 >>
    ELSE IF obj.cls = "RandomForestClassifier"
         THEN << 99, 1, obj.hp, obj.thr + 1, 46 >>
         ELSE << 99, 2, 46 >>

Raised == [ ok |-> FALSE, obj |-> Unbound ]

\* an unpickler that loses the fitted state of the forest
Load_Unfitted(bytes) ==
    IF bytes = << 78, 46 >> THEN [ ok |-> TRUE, obj |-> None ]
    ELSE IF bytes = << 99, 2, 46 >> THEN [ ok |-> TRUE, obj |-> Other ]
    ELSE IF Len(bytes) = 5 /\ bytes[1] = 99 /\ bytes[2] = 1 /\ bytes[5] = 46
         THEN [ ok |-> TRUE, obj |-> RF(bytes[3], 0) ]
         ELSE Raised

Load(bytes) ==
    IF bytes = << 78, 46 >> THEN [ ok |-> TRUE, obj |-> None ]
    ELSE IF bytes = << 99, 2, 46 >> THEN [ ok |-> TRUE, obj |-> Other ]
    ELSE IF Len(bytes) = 5 /\ bytes[1] = 99 /\ bytes[2] = 1 /\ bytes[5] = 46
         THEN [ ok |-> TRUE, obj |-> RF(bytes[3], bytes[4] - 1) ]
         ELSE Raised

Absent == [ exists |-> FALSE, bytes |-> << >> ]

FileOf(b) == [ exists |-> TRUE, bytes |-> b ]

\* what a write that stops part-way leaves in the file
StrictPrefixes(b) == { SubSeq(b, 1, k) : k \in 0..(Len(b) - 1) }

----------------------------------------------------------------------------
(* The classifier and evaluate_model *)

\* a forest of one tree of depth one on the Length column
Predict(model, X, i) == IF X["Length"][i].n >= model.thr THEN 1 ELSE 0

NoReport == [ printed |-> FALSE ]

Confusion(y_true, y_pred) ==
    LET Cell(t, p) == Cardinality({ i \in 1..Len(y_true) :
                                      y_true[i] = t /\ y_pred[i] = p })
    IN  [ printed |-> TRUE, tn |-> Cell(0, 0), fp |-> Cell(0, 1),
          fn |-> Cell(1, 0), tp |-> Cell(1, 1) ]

\* confusion_matrix is labels x labels, the labels those of y_true and y_pred
Labels(y_true, y_pred) ==
    { y_true[i] : i \in 1..Len(y_true) } \cup { y_pred[i] : i \in 1..Len(y_pred) }

----------------------------------------------------------------------------
(* The inputs *)

Malformed == [ ok |-> FALSE, data |-> EmptyFrame ]

Csv(frame) == [ ok |-> TRUE, data |-> frame ]

MkFrame(c, u, v) ==
    [ col \in Cols |-> IF col = "Class" THEN c ELSE IF col = "F1" THEN u ELSE v ]

FrameA == MkFrame(<< 0, 1, 1 >>, << 2, 0, 1 >>, << 0, 1, 2 >>)

FrameB == MkFrame(<< 1, 0, 1 >>, << 1, 1, 1 >>, << 2, 0, 1 >>)

FrameOneRow == MkFrame(<< 1 >>, << 0 >>, << 1 >>)

PipelineCSVs ==
    { Malformed, Csv(DropCol(FrameA, "Z_Length")), Csv(FrameOneRow),
      Csv(FrameA), Csv(FrameB) }

\* every dataset of 1..MaxRows rows with cells 0..MaxVal, the label being the
\* parity of the restored feature columns
GeneratedCSVs ==
    UNION { { Csv(MkFrame([ i \in 1..n |-> v[i] % 2 ], u, v)) :
                u \in [1..n -> 0..MaxVal], v \in [1..n -> 0..MaxVal] } :
            n \in 1..MaxRows }

Sizes(csvs) == { Rows(c.data) : c \in { x \in csvs : x.ok } }

Shuffles(sizes) ==
    { f \in [sizes -> UNION { Perms(n) : n \in sizes }] :
        \A n \in sizes : f[n] \in Perms(n) }

InitialFiles ==
    { Absent, FileOf(<< >>), FileOf(<< 99, 1 >>), FileOf(Dump(None)),
      FileOf(Dump(Other)) }
    \cup { FileOf(Dump(RF(h, t))) : h \in HPs, t \in Thresholds }

----------------------------------------------------------------------------
(* The script *)

RunStart(f) ==
    /\ pc = "read"
    /\ ds = EmptyFrame
    /\ normalized_ds = EmptyFrame
    /\ X_train = EmptyFrame
    /\ X_test = EmptyFrame
    /\ y_train = EmptyFrame
    /\ y_test = EmptyFrame
    /\ tuner = FALSE
    /\ best_hp = 0
    /\ best_model = Unbound
    /\ reported = NoReport
    /\ trace = << >>
    /\ fileAtStart = f
    /\ loaded = Unbound
    /\ evaluated = Unbound
    /\ existedAtCheck = FALSE
    /\ writes = 0

Init ==
    /\ csv \in PipelineCSVs
    /\ file \in InitialFiles
    /\ shuffle \in Shuffles(Sizes(PipelineCSVs))
    /\ file0 = file
    /\ firstSaved = [ set |-> FALSE ]
    /\ RunStart(file)

NormInit ==
    /\ csv \in GeneratedCSVs
    /\ file = Absent
    /\ shuffle \in Shuffles(Sizes({ csv }))
    /\ file0 = file
    /\ firstSaved = [ set |-> FALSE ]
    /\ RunStart(file)

Fail == pc' = "failed"

\* line 13: ds = pd.read_csv("data/features.csv")
ReadCSV ==
    /\ pc = "read"
    /\ trace' = Append(trace, "read")
    /\ IF csv.ok
       THEN ds' = csv.data /\ pc' = "normalize"
       ELSE Fail /\ UNCHANGED ds
    /\ UNCHANGED << csv, file, shuffle, normalized_ds, X_train, X_test, y_train,
                    y_test, tuner, best_hp, best_model, reported, fileAtStart,
                    file0, loaded, evaluated, existedAtCheck, writes, firstSaved >>

\* lines 17-23; ds["Class"] and the like raise KeyError on a missing column
Normalize ==
    /\ pc = "normalize"
    /\ trace' = Append(trace, "normalize")
    /\ IF RestoredCols \subseteq DOMAIN ds
       THEN normalized_ds' = NormalizeFrame(ds) /\ pc' = "split"
       ELSE Fail /\ UNCHANGED normalized_ds
    /\ UNCHANGED << csv, file, shuffle, ds, X_train, X_test, y_train, y_test,
                    tuner, best_hp, best_model, reported, fileAtStart, file0,
                    loaded, evaluated, existedAtCheck, writes, firstSaved >>

\* lines 26-29; train_test_split raises ValueError on an empty train set
Split ==
    /\ pc = "split"
    /\ trace' = Append(trace, "split")
    /\ LET y == [ c \in { "Class" } |-> normalized_ds[c] ]
           X == DropCol(normalized_ds, "Class")
           n == Rows(normalized_ds)
           p == shuffle[n]
           test == [ k \in 1..NTest(n) |-> p[k] ]
           train == [ k \in 1..NTrain(n) |-> p[NTest(n) + k] ]
       IN  IF NTrain(n) = 0
           THEN Fail /\ UNCHANGED << X_train, X_test, y_train, y_test >>
           ELSE /\ X_train' = TakeRows(X, train)
                /\ X_test' = TakeRows(X, test)
                /\ y_train' = TakeRows(y, train)
                /\ y_test' = TakeRows(y, test)
                /\ pc' = "load"
    /\ UNCHANGED << csv, file, shuffle, ds, normalized_ds, tuner, best_hp,
                    best_model, reported, fileAtStart, file0, loaded, evaluated,
                    existedAtCheck, writes, firstSaved >>

\* lines 68-71 with "except Exception" in place of "except FileNotFoundError"
LoadModel_CatchAll ==
    /\ pc = "load"
    /\ trace' = Append(trace, "load")
    /\ IF file.exists /\ Load(file.bytes).ok
       THEN best_model' = Load(file.bytes).obj /\ loaded' = Load(file.bytes).obj
       ELSE best_model' = None /\ UNCHANGED loaded
    /\ pc' = "branch"
    /\ UNCHANGED << csv, file, shuffle, ds, normalized_ds, X_train, X_test,
                    y_train, y_test, tuner, best_hp, reported, fileAtStart,
                    file0, evaluated, existedAtCheck, writes, firstSaved >>

\* lines 68-71 without the except clause
LoadModel_NoExcept ==
    /\ pc = "load"
    /\ trace' = Append(trace, "load")
    /\ IF file.exists /\ Load(file.bytes).ok
       THEN /\ best_model' = Load(file.bytes).obj
            /\ loaded' = Load(file.bytes).obj
            /\ pc' = "branch"
       ELSE Fail /\ UNCHANGED << best_model, loaded >>
    /\ UNCHANGED << csv, file, shuffle, ds, normalized_ds, X_train, X_test,
                    y_train, y_test, tuner, best_hp, reported, fileAtStart,
                    file0, evaluated, existedAtCheck, writes, firstSaved >>

\* lines 68-71: only FileNotFoundError is caught
LoadModel ==
    /\ pc = "load"
    /\ trace' = Append(trace, "load")
    /\ IF ~file.exists
       THEN best_model' = None /\ pc' = "branch" /\ UNCHANGED loaded
       ELSE IF Load(file.bytes).ok
            THEN /\ best_model' = Load(file.bytes).obj
                 /\ loaded' = Load(file.bytes).obj
                 /\ pc' = "branch"
            ELSE Fail /\ UNCHANGED << best_model, loaded >>
    /\ UNCHANGED << csv, file, shuffle, ds, normalized_ds, X_train, X_test,
                    y_train, y_test, tuner, best_hp, reported, fileAtStart,
                    file0, evaluated, existedAtCheck, writes, firstSaved >>

\* line 74 as "if best_model is None"
Branch_NoneOnly ==
    /\ pc = "branch"
    /\ pc' = IF best_model = None THEN "tuner" ELSE "evaluate"
    /\ UNCHANGED << csv, file, shuffle, ds, normalized_ds, X_train, X_test,
                    y_train, y_test, tuner, best_hp, best_model, reported, trace,
                    fileAtStart, file0, loaded, evaluated, existedAtCheck,
                    writes, firstSaved >>

\* line 74 with the condition always true
Branch_Always ==
    /\ pc = "branch"
    /\ pc' = "tuner"
    /\ UNCHANGED << csv, file, shuffle, ds, normalized_ds, X_train, X_test,
                    y_train, y_test, tuner, best_hp, best_model, reported, trace,
                    fileAtStart, file0, loaded, evaluated, existedAtCheck,
                    writes, firstSaved >>

\* line 74: if type(best_model) != RandomForestClassifier
Branch ==
    /\ pc = "branch"
    /\ pc' = IF best_model.cls # "RandomForestClassifier" THEN "tuner"
             ELSE "evaluate"
    /\ UNCHANGED << csv, file, shuffle, ds, normalized_ds, X_train, X_test,
                    y_train, y_test, tuner, best_hp, best_model, reported, trace,
                    fileAtStart, file0, loaded, evaluated, existedAtCheck,
                    writes, firstSaved >>

\* lines 76-86
MakeTuner ==
    /\ pc = "tuner"
    /\ trace' = Append(trace, "tuner")
    /\ tuner' = TRUE
    /\ pc' = "search"
    /\ UNCHANGED << csv, file, shuffle, ds, normalized_ds, X_train, X_test,
                    y_train, y_test, best_hp, best_model, reported, fileAtStart,
                    file0, loaded, evaluated, existedAtCheck, writes, firstSaved >>

\* lines 89-90: the library returns some configuration, or raises
Search ==
    /\ pc = "search"
    /\ trace' = Append(trace, "search")
    /\ \/ \E h \in HPs : best_hp' = h /\ pc' = "build"
       \/ Fail /\ UNCHANGED best_hp
    /\ UNCHANGED << csv, file, shuffle, ds, normalized_ds, X_train, X_test,
                    y_train, y_test, tuner, best_model, reported, fileAtStart,
                    file0, loaded, evaluated, existedAtCheck, writes, firstSaved >>

\* line 93: best_model = tuner.hypermodel.build(best_hp)
Build ==
    /\ pc = "build"
    /\ trace' = Append(trace, "build")
    /\ best_model' = RF(best_hp, -1)
    /\ pc' = "fit"
    /\ UNCHANGED << csv, file, shuffle, ds, normalized_ds, X_train, X_test,
                    y_train, y_test, tuner, best_hp, reported, fileAtStart,
                    file0, loaded, evaluated, existedAtCheck, writes, firstSaved >>

\* line 94 followed by line 100, evaluate_model never called
Fit_NoEvaluate ==
    /\ pc = "fit"
    /\ trace' = Append(trace, "fit")
    /\ \E t \in Thresholds : best_model' = RF(best_model.hp, t)
    /\ pc' = "isfile"
    /\ UNCHANGED << csv, file, shuffle, ds, normalized_ds, X_train, X_test,
                    y_train, y_test, tuner, best_hp, reported, fileAtStart,
                    file0, loaded, evaluated, existedAtCheck, writes, firstSaved >>

\* line 94: the forest is random (no random_state), the fit may raise
Fit ==
    /\ pc = "fit"
    /\ trace' = Append(trace, "fit")
    /\ \/ \E t \in Thresholds :
            best_model' = RF(best_model.hp, t) /\ pc' = "evaluate"
       \/ Fail /\ UNCHANGED best_model
    /\ UNCHANGED << csv, file, shuffle, ds, normalized_ds, X_train, X_test,
                    y_train, y_test, tuner, best_hp, reported, fileAtStart,
                    file0, loaded, evaluated, existedAtCheck, writes, firstSaved >>

\* lines 96-97 and 47-60: the unpacking of line 49 raises ValueError unless
\* the confusion matrix is 2 x 2
Evaluate ==
    /\ pc = "evaluate"
    /\ trace' = Append(trace, "evaluate")
    /\ evaluated' = best_model
    /\ LET y_true == [ i \in 1..Rows(y_test) |-> y_test["Class"][i].n ]
           y_pred == [ i \in 1..Rows(X_test) |-> Predict(best_model, X_test, i) ]
       IN  IF Cardinality(Labels(y_true, y_pred)) = 2
           THEN reported' = Confusion(y_true, y_pred) /\ pc' = "isfile"
           ELSE Fail /\ UNCHANGED reported
    /\ UNCHANGED << csv, file, shuffle, ds, normalized_ds, X_train, X_test,
                    y_train, y_test, tuner, best_hp, best_model, fileAtStart,
                    file0, loaded, existedAtCheck, writes, firstSaved >>

\* line 100 with the condition always true
CheckFile_NoGuard ==
    /\ pc = "isfile"
    /\ trace' = Append(trace, "isfile")
    /\ existedAtCheck' = file.exists
    /\ pc' = "save"
    /\ UNCHANGED << csv, file, shuffle, ds, normalized_ds, X_train, X_test,
                    y_train, y_test, tuner, best_hp, best_model, reported,
                    fileAtStart, file0, loaded, evaluated, writes, firstSaved >>

\* line 100: if not isfile(filename)
CheckFile ==
    /\ pc = "isfile"
    /\ trace' = Append(trace, "isfile")
    /\ existedAtCheck' = file.exists
    /\ pc' = IF file.exists THEN "done" ELSE "save"
    /\ UNCHANGED << csv, file, shuffle, ds, normalized_ds, X_train, X_test,
                    y_train, y_test, tuner, best_hp, best_model, reported,
                    fileAtStart, file0, loaded, evaluated, writes, firstSaved >>

\* line 101: open(filename, 'wb') creates or truncates the file before
\* pickle.dump runs; either call may raise
Save ==
    /\ pc = "save"
    /\ trace' = Append(trace, "save")
    /\ \/ /\ file' = FileOf(Dump(best_model))
          /\ writes' = writes + 1
          /\ firstSaved' =
               IF firstSaved.set THEN firstSaved
               ELSE [ set |-> TRUE, csv |-> csv, model |-> best_model,
                      file |-> FileOf(Dump(best_model)), reported |-> reported ]
          /\ pc' = "done"
       \/ /\ \E part \in StrictPrefixes(Dump(best_model)) : file' = FileOf(part)
          /\ writes' = writes + 1
          /\ Fail
          /\ UNCHANGED firstSaved
       \/ Fail /\ UNCHANGED << file, writes, firstSaved >>
    /\ UNCHANGED << csv, shuffle, ds, normalized_ds, X_train, X_test, y_train,
                    y_test, tuner, best_hp, best_model, reported, fileAtStart,
                    file0, loaded, evaluated, existedAtCheck >>

\* the script is started again; features.csv may have been replaced
StartRun ==
    /\ pc \in { "done", "failed" }
    /\ csv' \in PipelineCSVs
    /\ pc' = "read"
    /\ ds' = EmptyFrame
    /\ normalized_ds' = EmptyFrame
    /\ X_train' = EmptyFrame
    /\ X_test' = EmptyFrame
    /\ y_train' = EmptyFrame
    /\ y_test' = EmptyFrame
    /\ tuner' = FALSE
    /\ best_hp' = 0
    /\ best_model' = Unbound
    /\ reported' = NoReport
    /\ trace' = << >>
    /\ fileAtStart' = file
    /\ loaded' = Unbound
    /\ evaluated' = Unbound
    /\ existedAtCheck' = FALSE
    /\ writes' = 0
    /\ UNCHANGED << file, shuffle, file0, firstSaved >>

Next ==
    \/ ReadCSV \/ Normalize \/ Split \/ LoadModel \/ Branch \/ MakeTuner
    \/ Search \/ Build \/ Fit \/ Evaluate \/ CheckFile \/ Save \/ StartRun

Spec == Init /\ [][Next]_vars

NormNext == ReadCSV \/ Normalize \/ Split

NormSpec == NormInit /\ [][NormNext]_vars

----------------------------------------------------------------------------
(* Vocabulary of the properties *)

InTrace(stage) == \E i \in 1..Len(trace) : trace[i] = stage

IsForest(obj) == obj.cls = "RandomForestClassifier"

FullOrder ==
    << "read", "normalize", "split", "load", "tuner", "search", "build", "fit",
       "evaluate", "isfile", "save" >>

SkipOrder == << "read", "normalize", "split", "load", "evaluate", "isfile", "save" >>

\* the script is past line 74 and past the construction of the tuner, if any
PastTuner ==
    \/ pc \in { "search", "build", "fit", "evaluate", "isfile", "save", "done" }
    \/ pc = "failed" /\ Len(trace) >= 5

Normalized == pc \in { "split", "load" } \/ (pc = "failed" /\ InTrace("split"))

IsNaN(cell) == cell = NaN

Constant(col) == \A i, j \in 1..Len(col) : col[i] = col[j]

\* the exact mean and sample standard deviation of a column whose cells are
\* n_i * sqrt(r / d) with one r and one d
OneScale(col) ==
    \A i \in 1..Len(col) :
        ~IsNaN(col[i]) /\ col[i].r = col[1].r /\ col[i].d = col[1].d

Numerators(col) == [ i \in 1..Len(col) |-> col[i].n ]

MeanIsZero(col) == Len(col) >= 1 /\ OneScale(col) /\ SumSeq(Numerators(col)) = 0

StdIsOne(col) ==
    /\ Len(col) >= 2
    /\ OneScale(col)
    /\ col[1].r * SqDev(Numerators(col))
         = col[1].d * Len(col) * Len(col) * (Len(col) - 1)

\* cell = (col[i] - mean(col)) / std(col), NaN when that is 0 / 0 or x / NaN
IsZScore(cell, col, i) ==
    IF Len(col) < 2 \/ SqDev(col) = 0 THEN IsNaN(cell)
    ELSE /\ ~IsNaN(cell)
         /\ cell.r > 0 /\ cell.d > 0
         /\ (cell.n > 0) = (Dev(col, i) > 0)
         /\ (cell.n < 0) = (Dev(col, i) < 0)
         /\ cell.n * cell.n * cell.r * SqDev(col)
              = Dev(col, i) * Dev(col, i) * (Len(col) - 1) * cell.d

----------------------------------------------------------------------------
(* C1: in every run model.sav is opened for writing at most once, only after  *)
(* the isfile check of line 100 found it absent, and a file that exists at    *)
(* that check keeps the content it had when the run started.                  *)
WrittenOnlyIfAbsent ==
    /\ writes <= 1
    /\ writes = 1 => InTrace("isfile") /\ ~existedAtCheck
    /\ file # fileAtStart => writes = 1
    /\ (InTrace("isfile") /\ existedAtCheck) => file = fileAtStart

WrittenOnce == pc = "done" /\ writes = 1 /\ ~existedAtCheck /\ file.exists

(* C2: with model.sav absent the load does not end the run: best_model is     *)
(* None, the tuner is built, search and fit run before the evaluation, and a  *)
(* run that completes has evaluated the fit model and written it to model.sav *)
MissingFileFallsBack ==
    ~fileAtStart.exists =>
        /\ pc = "failed" => Last(trace) # "load"
        /\ pc = "branch" => best_model = None
        /\ loaded = Unbound
        /\ InTrace("evaluate") =>
              /\ tuner /\ InTrace("search") /\ InTrace("fit")
              /\ IsForest(evaluated) /\ evaluated.thr \in Thresholds
        /\ pc = "done" =>
              /\ trace = FullOrder
              /\ reported.printed
              /\ file = FileOf(Dump(evaluated))

MissingFileRunCompleted ==
    ~fileAtStart.exists /\ pc = "done" /\ InTrace("search") /\ file.exists

(* C3 as stated: every failure other than a missing model file ends the run   *)
(* with model.sav neither created nor changed.                                *)
FailedRunLeavesFile == pc = "failed" => file = fileAtStart

(* C3 amended: a failure before the save step ends the run with model.sav as  *)
(* it was; a malformed CSV ends it at the read, a missing column at the       *)
(* normalization, an unpicklable model.sav at the load, with no search, no    *)
(* report and no write after it.                                              *)
FailureBeforeSaveLeavesFile ==
    /\ (pc = "failed" /\ Last(trace) # "save") =>
          file = fileAtStart /\ writes = 0
    /\ pc = "failed" =>
          /\ IsPrefix(trace, FullOrder) \/ IsPrefix(trace, SkipOrder)
          /\ Last(trace) \in { "read", "normalize", "split", "load", "search", "fit" }
                => ~reported.printed /\ evaluated = Unbound
    /\ ~csv.ok => pc \in { "read", "failed" } /\ Len(trace) <= 1
    /\ (csv.ok /\ ~(RestoredCols \subseteq DOMAIN csv.data)) =>
          pc \in { "read", "normalize", "failed" } /\ Len(trace) <= 2
    /\ (fileAtStart.exists /\ ~Load(fileAtStart.bytes).ok) =>
          /\ pc \in { "read", "normalize", "split", "load", "failed" }
          /\ Len(trace) <= 4
          /\ ~tuner /\ best_model = Unbound /\ file = fileAtStart

UnpicklableFileEndedRun ==
    /\ pc = "failed" /\ Last(trace) = "load"
    /\ fileAtStart.exists /\ file = fileAtStart

(* C4: past line 74 the tuner has been constructed exactly when the load did  *)
(* not yield a RandomForestClassifier; with a loaded forest no tuner, search, *)
(* build or fit happens and the model evaluated is the loaded one.            *)
SearchSkippedIffCached ==
    /\ loaded # Unbound =>
          fileAtStart.exists /\ Load(fileAtStart.bytes) = [ ok |-> TRUE, obj |-> loaded ]
    /\ PastTuner => (tuner <=> ~IsForest(loaded))
    /\ InTrace("search") <=> (tuner /\ pc # "search")
    /\ IsForest(loaded) =>
          /\ ~tuner /\ pc \notin { "tuner", "search", "build", "fit" }
          /\ ~InTrace("search") /\ ~InTrace("fit")
          /\ best_model = loaded
          /\ InTrace("evaluate") => evaluated = loaded

CachedRunCompleted ==
    /\ pc = "done" /\ IsForest(loaded) /\ ~tuner
    /\ evaluated = loaded /\ reported.printed

(* C5: the stages of a run start in the order read, normalize, split, load,   *)
(* (tuner, search, build, fit), evaluate, isfile, save, each at most once;    *)
(* model.sav is written only after the evaluation has reported, and only      *)
(* with a forest obtained by load or by fit.                                  *)
StagesInOrder ==
    /\ IsPrefix(trace, FullOrder) \/ IsPrefix(trace, SkipOrder)
    /\ (InTrace("save") \/ writes > 0 \/ file # fileAtStart) =>
          /\ InTrace("evaluate") /\ reported.printed
          /\ IsForest(best_model) /\ evaluated = best_model
          /\ InTrace("fit") \/ loaded = best_model

AllStagesRan == trace = FullOrder /\ pc = "done"

(* C6 as stated: after a run that searched and completed, model.sav holds the *)
(* model built from the best hyperparameters and fit in that run, the one     *)
(* whose metrics were reported.                                               *)
BestModelPersisted ==
    (pc = "done" /\ InTrace("search")) =>
        /\ IsForest(best_model) /\ best_model.hp = best_hp
        /\ evaluated = best_model
        /\ file = FileOf(Dump(best_model))
        /\ Load(file.bytes).obj = best_model

(* C7 as stated: every column of the normalized frame has mean 0 and standard *)
(* deviation 1; taken here in its most favourable case, a dataset of two rows *)
(* or more in which no column is constant.                                    *)
EveryColumnStandardized ==
    (Normalized /\ Rows(ds) >= 2 /\ \A c \in DOMAIN ds : ~Constant(ds[c])) =>
        \A c \in DOMAIN normalized_ds :
            MeanIsZero(normalized_ds[c]) /\ StdIsOne(normalized_ds[c])

(* C7 amended: every column other than the six restored ones has mean 0 and   *)
(* standard deviation 1, provided the dataset has two rows or more and the    *)
(* column is not constant; otherwise the column is NaN throughout.            *)
ScaledColumnsStandardized ==
    Normalized =>
        \A c \in DOMAIN normalized_ds \ RestoredCols :
            IF Rows(ds) >= 2 /\ ~Constant(ds[c])
            THEN MeanIsZero(normalized_ds[c]) /\ StdIsOne(normalized_ds[c])
            ELSE \A i \in 1..Rows(ds) : IsNaN(normalized_ds[c][i])

ScaledColumnPassedOn ==
    /\ pc = "split" /\ Rows(normalized_ds) = MaxRows
    /\ ~Constant(ds["F1"]) /\ StdIsOne(normalized_ds["F1"])

(* C8: once a run that started without model.sav has completed, a later run   *)
(* on the same dataset loads the model that run saved, constructs no tuner,   *)
(* does not fail, evaluates that model, reports the same metrics and leaves   *)
(* model.sav as that run wrote it.                                            *)
RerunIdempotent ==
    (firstSaved.set /\ writes = 0 /\ csv = firstSaved.csv) =>
        /\ file = firstSaved.file /\ fileAtStart = firstSaved.file
        /\ pc \notin { "failed", "tuner", "search", "build", "fit", "save" }
        /\ ~tuner
        /\ InTrace("load") => loaded = firstSaved.model /\ best_model = loaded
        /\ InTrace("evaluate") => evaluated = firstSaved.model
        /\ pc \in { "isfile", "done" } => reported = firstSaved.reported
        /\ pc = "done" => existedAtCheck

RerunCompleted ==
    /\ firstSaved.set /\ writes = 0 /\ csv = firstSaved.csv
    /\ pc = "done" /\ reported = firstSaved.reported

RestoredColumnsRaw ==
    /\ Normalized =>
          /\ DOMAIN normalized_ds = DOMAIN ds
          /\ \A c \in RestoredCols : normalized_ds[c] = RawCol(ds[c])
          /\ \A c \in DOMAIN ds \ RestoredCols : \A i \in 1..Rows(ds) :
                IsZScore(normalized_ds[c][i], ds[c], i)
    /\ pc = "load" =>
          LET n == Rows(ds)
          IN  /\ DOMAIN y_test = { "Class" } /\ DOMAIN y_train = { "Class" }
              /\ "Class" \notin DOMAIN X_test /\ "Class" \notin DOMAIN X_train
              /\ y_test["Class"] =
                   [ k \in 1..NTest(n) |-> Raw(ds["Class"][shuffle[n][k]]) ]
              /\ y_train["Class"] =
                   [ k \in 1..NTrain(n) |-> Raw(ds["Class"][shuffle[n][NTest(n) + k]]) ]

RawLabelsSplit ==
    /\ pc = "load" /\ Rows(ds) = MaxRows
    /\ ~Constant(ds["Class"]) /\ ~Constant(ds["F1"])
    /\ y_test["Class"][1] = Raw(1)

====
